---- MODULE Spec2Model ----
(***************************************************************************)
(* A model of the entity extraction / normalisation / comparison core of   *)
(* the multilingual document comparer: src/final.py (the module the Flask  *)
(* app imports), src/MANUAL_entity_extraction.py (the stand-alone          *)
(* consistency checker) and the two-file wrapper of src/app.py.            *)
(*                                                                         *)
(* Text is a sequence of characters.  A character is a one-letter string;  *)
(* a character outside ASCII is written {name} in a literal and is one     *)
(* element of the sequence:                                                *)
(*   {a-} {e-} {i-} {u-} {o-}  a e i u o with macron   (U+0101 ...)        *)
(*   {A-} {E-} {I-} {U-} {O-}  their capitals                              *)
(*   {a:} {o:} {u:} {A:} {O:} {U:}  a o u with diaeresis                   *)
(*   {cv} {sv} {zv}            c s z with caron                            *)
(*   {g,} {k,} {l,} {n,} {r,}  g k l n r with cedilla                      *)
(*   {ss}                      the sharp s (a letter; no text of the model *)
(*                             is put in capitals with it)                 *)
(*   {euro} {ndash} {mdash}    the euro sign, en dash, em dash             *)
(*   {nbsp} {nnbsp} {thinsp}   U+00A0, U+202F, U+2009                      *)
(*   {tab}                     the tabulator                               *)
(* The python regular expressions are kept as syntax trees and run by a    *)
(* backtracking matcher with python's priorities (leftmost alternative     *)
(* first, greedy repetition), so that a group captures what it captures    *)
(* in the source.                                                          *)
(***************************************************************************)
EXTENDS Integers, Sequences, FiniteSets, TLC

(***************************************************************************)
(* The state.  The three programs are run from files; the pure functions   *)
(* are run on inputs drawn at the start.                                   *)
(*   unit         the code that runs: "final", "app" or "manual"           *)
(*   entity       the tag and raw span handed to normalize_entity          *)
(*   shape        what the raw span was written from (a calendar date in   *)
(*                some form, an act with codes, year and number, ...)      *)
(*   seed         the codes outside the priority table, in the order the   *)
(*                string hashes of this process put them in a set          *)
(*   normalized   the results of normalize_entity applied once, twice      *)
(*   ents         the two entity mappings handed to the comparison         *)
(*   similarity   the result of entity_similarity, once it has run         *)
(*   significant  the result of is_significant_mismatch per tag, once run  *)
(*   files        the paragraph lists of the input files                   *)
(*   rows         the rows generate_report returned                        *)
(*   mismatches   the records the consistency check appended               *)
(*   pc           how far the run is                                       *)
(***************************************************************************)
VARIABLES unit, entity, shape, seed, normalized, ents, similarity, significant,
          files, rows, mismatches, pc
vars == <<unit, entity, shape, seed, normalized, ents, similarity, significant,
          files, rows, mismatches, pc>>

(***************************************************************************)
(* Characters and strings                                                  *)
(***************************************************************************)
Range(f) == {f[i] : i \in DOMAIN f}
\* The sequence f as a tuple of its elements, each worked out once.
Tuple(f) == f \o <<>>
Min(S) == CHOOSE x \in S : \A y \in S : x <= y
Max(S) == CHOOSE x \in S : \A y \in S : x >= y

\* ss[lo] \o ... \o ss[hi]
RECURSIVE ConcatRange(_, _, _)
ConcatRange(ss, lo, hi) ==
  IF lo > hi THEN <<>>
  ELSE IF lo = hi THEN ss[lo]
  ELSE LET mid == (lo + hi) \div 2
       IN ConcatRange(ss, lo, mid) \o ConcatRange(ss, mid + 1, hi)
Concat(ss) == ConcatRange(ss, 1, Len(ss))

\* A literal, read into its characters: {name} is one character.
\* The index of the "{" that is open at index mid, or 0.
OpenAt(s, lo, mid) ==
  IF \E j \in lo..mid : SubSeq(s, j, j) = "{" /\ \A k \in j..mid : SubSeq(s, k, k) # "}"
  THEN CHOOSE j \in lo..mid : SubSeq(s, j, j) = "{" /\ \A k \in j..mid : SubSeq(s, k, k) # "}"
  ELSE 0
\* The index of the "}" that closes the "{" at index j.
CloseAfter(s, j) ==
  CHOOSE e \in j..Len(s) : SubSeq(s, e, e) = "}" /\ \A k \in j..(e - 1) : SubSeq(s, k, k) # "}"
\* The characters from index lo to index hi, cut in the middle, or around the
\* {name} from j to e that holds the middle.
RECURSIVE CharsRange(_, _, _)
RECURSIVE CharsSplit(_, _, _, _)
RECURSIVE CharsAround(_, _, _, _, _)
CharsRange(s, lo, hi) ==
  IF lo > hi THEN <<>>
  ELSE IF lo = hi THEN <<SubSeq(s, lo, lo)>>
  ELSE CharsSplit(s, lo, hi, OpenAt(s, lo, (lo + hi) \div 2))
CharsSplit(s, lo, hi, j) ==
  IF j = 0
  THEN CharsRange(s, lo, (lo + hi) \div 2) \o CharsRange(s, (lo + hi) \div 2 + 1, hi)
  ELSE CharsAround(s, lo, hi, j, CloseAfter(s, j))
CharsAround(s, lo, hi, j, e) ==
  CharsRange(s, lo, j - 1) \o <<SubSeq(s, j, e)>> \o CharsRange(s, e + 1, hi)
Chars(s) == CharsRange(s, 1, Len(s))

\* The characters of a text, written back as one literal.
RECURSIVE JoinRange(_, _, _)
JoinRange(cs, lo, hi) ==
  IF lo > hi THEN ""
  ELSE IF lo = hi THEN cs[lo]
  ELSE LET mid == (lo + hi) \div 2
       IN JoinRange(cs, lo, mid) \o JoinRange(cs, mid + 1, hi)
Join(cs) == JoinRange(cs, 1, Len(cs))

DigitSeq ==
  <<"0", "1", "2", "3", "4", "5", "6", "7", "8", "9">>
Digits == Range(DigitSeq)

\* The letters of the texts, small and capital: a to z, then the others.
CaseLower ==
  <<"a", "b", "c", "d", "e", "f", "g", "h", "i", "j", "k", "l", "m", "n", "o", "p",
    "q", "r", "s", "t", "u", "v", "w", "x", "y", "z", "{a-}", "{e-}", "{i-}", "{u-}",
    "{o-}", "{a:}", "{o:}", "{u:}", "{cv}", "{sv}", "{zv}", "{g,}", "{k,}", "{l,}",
    "{n,}", "{r,}">>
CaseUpper ==
  <<"A", "B", "C", "D", "E", "F", "G", "H", "I", "J", "K", "L", "M", "N", "O", "P",
    "Q", "R", "S", "T", "U", "V", "W", "X", "Y", "Z", "{A-}", "{E-}", "{I-}", "{U-}",
    "{O-}", "{A:}", "{O:}", "{U:}", "{CV}", "{SV}", "{ZV}", "{G,}", "{K,}", "{L,}",
    "{N,}", "{R,}">>

\* str.upper() and str.lower(), one character at a time.
CaseTable(from, to) ==
  [c \in Range(from) |-> to[CHOOSE k \in DOMAIN from : from[k] = c]] @@ <<>>
UpperTable == CaseTable(CaseLower, CaseUpper)
LowerTable == CaseTable(CaseUpper, CaseLower)
UpperChar(c) == IF c \in DOMAIN UpperTable THEN UpperTable[c] ELSE c
LowerChar(c) == IF c \in DOMAIN LowerTable THEN LowerTable[c] ELSE c
upper(cs) == Tuple([i \in DOMAIN cs |-> UpperChar(cs[i])])
lower(cs) == Tuple([i \in DOMAIN cs |-> LowerChar(cs[i])])

\* The classes of python's re on str patterns: \d, \s, \w, and [A-Za-z].
AZaz == Range(SubSeq(CaseLower, 1, 26)) \cup Range(SubSeq(CaseUpper, 1, 26))
Letters == Range(CaseLower) \cup Range(CaseUpper) \cup {"{ss}"}
Spaces == {" ", "{tab}", "{nbsp}", "{nnbsp}", "{thinsp}"}
WordChars == Letters \cup Digits \cup {"_"}

\* str.strip(): whitespace off both ends.
strip(cs) ==
  LET kept == {i \in DOMAIN cs : cs[i] \notin Spaces}
  IN IF kept = {} THEN <<>> ELSE SubSeq(cs, Min(kept), Max(kept))

(***************************************************************************)
(* Regular expressions: the syntax tree and python's backtracking match    *)
(***************************************************************************)
Lit(s) == [t |-> "lit", cs |-> Chars(s)]
LitChars(cs) == [t |-> "lit", cs |-> cs]
Cls(S) == [t |-> "cls", set |-> S]
Cat(rs) == [t |-> "cat", rs |-> rs]
Alt(rs) == [t |-> "alt", rs |-> rs]
Opt(r) == [t |-> "opt", r |-> r]
Star(r) == [t |-> "star", r |-> r]
Plus(r) == [t |-> "cat", rs |-> <<r, [t |-> "star", r |-> r]>>]
Rep(r, lo, hi) == [t |-> "rep", r |-> r, lo |-> lo, hi |-> hi]
Grp(n, r) == [t |-> "grp", n |-> n, r |-> r]
WordB == [t |-> "wordb"]
EndS == [t |-> "ends"]
NotBehind(S) == [t |-> "notbehind", set |-> S]
NotAhead(S) == [t |-> "notahead", set |-> S]
\* An alternation of literals, (?:a|b|c), in the order written.
Words(ws) == [t |-> "alt", rs |-> Tuple([i \in DOMAIN ws |-> Lit(ws[i])])]

\* x = ...; then the rest F, which reads x.  The test works x out before F
\* starts, as an assignment does.
Bind(x, F(_)) == IF x = x THEN F(x) ELSE F(x)

GroupNames == {"1", "2", "3", "codes", "codes2", "year", "num"}
NoGroups == [g \in GroupNames |-> <<0, 0>>]
NoMatch == [ok |-> FALSE, b |-> 0, e |-> 0, g |-> NoGroups]

\* Whether character c is in class S, under re.I when ic.
InClass(c, S, ic) ==
  \/ c \in S
  \/ ic /\ (UpperChar(c) \in S \/ LowerChar(c) \in S)
SameChar(c, d, ic) == c = d \/ (ic /\ LowerChar(c) = LowerChar(d))

IsWordAt(cs, i) == i >= 1 /\ i <= Len(cs) /\ cs[i] \in WordChars

\* How many characters of class S stand in cs from index i on, at most max.
FirstOr(out, otherwise) == IF out = {} THEN otherwise ELSE Min(out)
RunTo(cs, i, S, ic, last) ==
  FirstOr({j \in i..last : ~InClass(cs[j], S, ic)}, last + 1) - i
Run(cs, i, S, ic, max) ==
  RunTo(cs, i, S, ic, IF i + max - 1 < Len(cs) THEN i + max - 1 ELSE Len(cs))

\* One way to match: the index after the match and the groups set.
Way(e, g) == [e |-> e, g |-> g]

\* The ways expression r matches in cs from index i on, in the order python's
\* backtracking tries them (the leftmost alternative first, the longest
\* repetition first); g holds the groups set so far.  The first way of the
\* whole pattern is python's match.
RECURSIVE Ways(_, _, _, _, _)
RECURSIVE CatWays(_, _, _, _, _)
RECURSIVE RepWays(_, _, _, _, _, _, _)

Ways(r, cs, i, g, ic) ==
  CASE r.t = "lit" ->
         IF /\ i + Len(r.cs) - 1 <= Len(cs)
            /\ \A j \in 1..Len(r.cs) : SameChar(cs[i + j - 1], r.cs[j], ic)
         THEN <<Way(i + Len(r.cs), g)>>
         ELSE <<>>
    [] r.t = "cls" ->
         IF i <= Len(cs) /\ InClass(cs[i], r.set, ic) THEN <<Way(i + 1, g)>> ELSE <<>>
    [] r.t = "cat" -> CatWays(r.rs, 1, cs, <<Way(i, g)>>, ic)
    [] r.t = "alt" -> Concat(Tuple([j \in DOMAIN r.rs |-> Ways(r.rs[j], cs, i, g, ic)]))
    [] r.t = "opt" -> Ways(r.r, cs, i, g, ic) \o <<Way(i, g)>>
    [] r.t = "star" -> RepWays(r.r, 0, Len(cs), cs, i, g, ic)
    [] r.t = "rep" -> RepWays(r.r, r.lo, r.hi, cs, i, g, ic)
    [] r.t = "grp" ->
         Bind(Ways(r.r, cs, i, g, ic), LAMBDA inner :
           Tuple([k \in DOMAIN inner |->
                    Way(inner[k].e, [inner[k].g EXCEPT ![r.n] = <<i, inner[k].e>>])]))
    [] r.t = "wordb" ->
         IF IsWordAt(cs, i - 1) # IsWordAt(cs, i) THEN <<Way(i, g)>> ELSE <<>>
    [] r.t = "ends" -> IF i = Len(cs) + 1 THEN <<Way(i, g)>> ELSE <<>>
    [] r.t = "notbehind" ->
         IF i > 1 /\ InClass(cs[i - 1], r.set, ic) THEN <<>> ELSE <<Way(i, g)>>
    [] r.t = "notahead" ->
         IF i <= Len(cs) /\ InClass(cs[i], r.set, ic) THEN <<>> ELSE <<Way(i, g)>>

\* The ways to match rs[k], rs[k+1], ... after each of the ways so far.
CatWays(rs, k, cs, ways, ic) ==
  IF k > Len(rs) \/ ways = <<>> THEN ways
  ELSE CatWays(rs, k + 1, cs,
               Concat(Tuple([j \in DOMAIN ways |->
                               Ways(rs[k], cs, ways[j].e, ways[j].g, ic)])),
               ic)

\* r{lo,hi}, greedy: as many as possible first.  A repeated class takes its
\* run of characters at once; another expression is repeated one at a time.
RepWays(r, lo, hi, cs, i, g, ic) ==
  IF r.t = "cls"
  THEN Bind(Run(cs, i, r.set, ic, hi), LAMBDA n :
         IF n < lo THEN <<>>
         ELSE Tuple([k \in 1..(n - lo + 1) |-> Way(i + n + 1 - k, g)]))
  ELSE Bind(IF hi > 0 THEN SelectSeq(Ways(r, cs, i, g, ic), LAMBDA w : w.e > i) ELSE <<>>,
            LAMBDA once :
         Concat(Tuple([j \in DOMAIN once |->
                         RepWays(r, IF lo > 0 THEN lo - 1 ELSE 0, hi - 1, cs,
                                 once[j].e, once[j].g, ic)]))
         \o (IF lo = 0 THEN <<Way(i, g)>> ELSE <<>>))

\* The match of r that starts at index i, or NoMatch: the first of the ways.
FirstWay(ways, i) ==
  IF ways = <<>> THEN NoMatch
  ELSE [ok |-> TRUE, b |-> i, e |-> ways[1].e, g |-> ways[1].g]
MatchAt(r, cs, i, ic) == FirstWay(Ways(r, cs, i, NoGroups, ic), i)

\* re.match: at the start of cs.
match(r, cs, ic) == MatchAt(r, cs, 1, ic)

\* re.search from index i on: the leftmost match.  tries[k] holds the ways to
\* match at index i + k - 1.
Leftmost(tries, i, found) ==
  IF found = {} THEN NoMatch ELSE FirstWay(tries[Min(found)], i + Min(found) - 1)
FirstMatch(tries, i) == Leftmost(tries, i, {k \in DOMAIN tries : tries[k] # <<>>})
SearchFrom(r, cs, i, ic) ==
  FirstMatch(Tuple([k \in 1..(Len(cs) + 2 - i) |-> Ways(r, cs, i + k - 1, NoGroups, ic)]), i)
search(r, cs, ic) == SearchFrom(r, cs, 1, ic)

\* m.group(n): the text of group n, "" standing for None (no use in the
\* source tells a group that is not set from an empty one).
group(m, cs, n) == IF m.g[n] = <<0, 0>> THEN <<>> ELSE SubSeq(cs, m.g[n][1], m.g[n][2] - 1)
group0(m, cs) == SubSeq(cs, m.b, m.e - 1)

\* The matches re.finditer gives from index i on: left to right, not
\* overlapping; m is the leftmost match from i on.
RECURSIVE MatchesFrom(_, _, _, _)
RECURSIVE MatchesAfter(_, _, _, _)
MatchesFrom(r, cs, i, ic) == MatchesAfter(r, cs, SearchFrom(r, cs, i, ic), ic)
MatchesAfter(r, cs, m, ic) ==
  IF ~m.ok THEN <<>>
  ELSE <<m>> \o MatchesFrom(r, cs, IF m.e = m.b THEN m.e + 1 ELSE m.e, ic)

\* re.findall of a pattern without groups.
Texts(ms, cs) == Tuple([k \in DOMAIN ms |-> group0(ms[k], cs)])
findall(r, cs, ic) == Texts(MatchesFrom(r, cs, 1, ic), cs)

\* A replacement template: a sequence of texts and of group references.
Txt(s) == [txt |-> Chars(s)]
TxtChars(cs) == [txt |-> cs]
Ref(n) == [ref |-> n]
Expand(tpl, m, cs) ==
  Concat(Tuple([k \in DOMAIN tpl |->
                  IF "ref" \in DOMAIN tpl[k] THEN group(m, cs, tpl[k].ref)
                  ELSE tpl[k].txt]))

\* The text before match k, from the end of the match before it.
Before(ms, k, cs) == SubSeq(cs, IF k = 1 THEN 1 ELSE ms[k - 1].e, ms[k].b - 1)
After(ms, cs) == SubSeq(cs, IF ms = <<>> THEN 1 ELSE ms[Len(ms)].e, Len(cs))

\* re.sub of a pattern that matches no empty text: every match replaced by
\* the template.
Replaced(ms, tpl, cs) ==
  Concat(Tuple([k \in DOMAIN ms |-> Before(ms, k, cs) \o Expand(tpl, ms[k], cs)]))
  \o After(ms, cs)
sub(r, tpl, cs, ic) == Replaced(MatchesFrom(r, cs, 1, ic), tpl, cs)

\* re.split of a pattern that matches no empty text.
Between(ms, cs) ==
  Tuple([k \in 1..(Len(ms) + 1) |->
           IF k <= Len(ms) THEN Before(ms, k, cs) ELSE After(ms, cs)])
split(r, cs, ic) == Between(MatchesFrom(r, cs, 1, ic), cs)

\* str.replace(old, new) for a non-empty old.
replace(cs, old, new) == sub(LitChars(old), <<TxtChars(new)>>, cs, FALSE)

(***************************************************************************)
(* The tables of both modules (they are the same in both)                  *)
(***************************************************************************)
Digit == Cls(Digits)
WS == Cls(Spaces)
\* [A-Za-z{a-}{cv}{e-}{g,}{i-}{k,}{l,}{n,}{o-}{r,}{sv}{u-}{zv}] and [A-Za-z{a:}{A:}{o:}{O:}{u:}{U:}]
LvLetters ==
  AZaz \cup Range(Chars("{a-}{cv}{e-}{g,}{i-}{k,}{l,}{n,}{o-}{r,}{sv}{u-}{zv}"))
DeLetters == AZaz \cup Range(Chars("{a:}{A:}{o:}{O:}{u:}{U:}"))
DateSep == Cls({".", "-", "/"})

\* ENTITY_EQUIVALENCE, in the order of the dict literal.
ENTITY_EQUIVALENCE ==
  << <<Chars("ES"), Chars("EU")>>, <<Chars("EK"), Chars("EC")>>,
     <<Chars("EURATO"), Chars("EURATOM")>> >>

\* dict.get(key, default) of a dict given as its items
Lookup(items, key, default) ==
  IF \E i \in DOMAIN items : items[i][1] = key
  THEN items[CHOOSE i \in DOMAIN items : items[i][1] = key][2]
  ELSE default

\* ENTITY_EQUIVALENCE.get(c, c)
EquivalenceGet(c) == Lookup(ENTITY_EQUIVALENCE, c, c)

\* MONTHS: the month names of the dict literal and their numbers.
MonthNames ==
  << <<"january", 1>>, <<"february", 2>>, <<"march", 3>>, <<"april", 4>>,
     <<"may", 5>>, <<"june", 6>>, <<"july", 7>>, <<"august", 8>>,
     <<"september", 9>>, <<"october", 10>>, <<"november", 11>>, <<"december", 12>>,
     <<"januar", 1>>, <<"februar", 2>>, <<"m{a:}rz", 3>>, <<"maerz", 3>>,
     <<"mai", 5>>, <<"juni", 6>>, <<"juli", 7>>, <<"oktober", 10>>, <<"dezember", 12>>,
     <<"janv{a-}ris", 1>>, <<"janv{a-}r{i-}", 1>>, <<"febru{a-}ris", 2>>,
     <<"febru{a-}r{i-}", 2>>, <<"marts", 3>>, <<"mart{a-}", 3>>,
     <<"apr{i-}lis", 4>>, <<"apr{i-}l{i-}", 4>>, <<"maijs", 5>>, <<"maij{a-}", 5>>,
     <<"j{u-}nijs", 6>>, <<"j{u-}nij{a-}", 6>>, <<"j{u-}lijs", 7>>, <<"j{u-}lij{a-}", 7>>,
     <<"augusts", 8>>, <<"august{a-}", 8>>, <<"septembris", 9>>, <<"septembr{i-}", 9>>,
     <<"oktobris", 10>>, <<"oktobr{i-}", 10>>, <<"novembris", 11>>, <<"novembr{i-}", 11>>,
     <<"decembris", 12>>, <<"decembr{i-}", 12>> >>
MONTHS ==
  Tuple([i \in DOMAIN MonthNames |-> <<Chars(MonthNames[i][1]), MonthNames[i][2]>>])

\* MONTHS.get(mon, 0)
MonthsGet(mon) == Lookup(MONTHS, mon, 0)

(***************************************************************************)
(* Numbers as text                                                         *)
(***************************************************************************)
DigitVal(c) == (CHOOSE i \in DOMAIN DigitSeq : DigitSeq[i] = c) - 1

\* int(cs) of a text of digits.
RECURSIVE ToInt(_)
ToInt(cs) ==
  IF cs = <<>> THEN 0 ELSE ToInt(SubSeq(cs, 1, Len(cs) - 1)) * 10 + DigitVal(cs[Len(cs)])

\* str(n) of a natural number.
RECURSIVE IntStr(_)
IntStr(n) ==
  IF n < 10 THEN <<DigitSeq[n + 1]>> ELSE IntStr(n \div 10) \o <<DigitSeq[(n % 10) + 1]>>

\* f"{n:02d}"
Fmt02d(n) == IF n < 10 THEN <<"0">> \o IntStr(n) ELSE IntStr(n)

\* f"{y}-{month:02d}-{d:02d}"
IsoDate(y, month, d) == y \o <<"-">> \o Fmt02d(month) \o <<"-">> \o Fmt02d(d)

\* The texts float() parses, among the texts over digits, ".", "+" and "-"
\* (python's float() also reads exponents, "_", "inf" and "nan": no text of
\* the model holds a letter or "_" where a number is parsed).
FloatPattern ==
  Cat(<<Opt(Cls({"+", "-"})),
        Alt(<<Cat(<<Plus(Digit), Opt(Cat(<<Lit("."), Star(Digit)>>))>>),
              Cat(<<Lit("."), Plus(Digit)>>)>>),
        EndS>>)
FloatParses(cs) == match(FloatPattern, strip(cs), FALSE).ok

RECURSIVE StripLeadingZeros(_)
StripLeadingZeros(cs) ==
  IF Len(cs) > 1 /\ Head(cs) = "0" THEN StripLeadingZeros(Tail(cs)) ELSE cs
RECURSIVE StripTrailingZeros(_)
StripTrailingZeros(cs) ==
  IF Len(cs) > 1 /\ cs[Len(cs)] = "0"
  THEN StripTrailingZeros(SubSeq(cs, 1, Len(cs) - 1))
  ELSE cs

\* str(float(cs)) for a text float() parses, of at most 15 significant digits
\* and a value that is 0 or in [1e-4, 1e16): the repr is positional, the
\* shortest digits that read back, with at least one digit after the point.
FloatStr(cs) ==
  Bind(strip(cs), LAMBDA t :
  Bind(IF t # <<>> /\ Head(t) \in {"+", "-"} THEN Tail(t) ELSE t, LAMBDA u :
  Bind(IF \E i \in DOMAIN u : u[i] = "."
       THEN CHOOSE i \in DOMAIN u : u[i] = "."
       ELSE Len(u) + 1, LAMBDA dot :
  Bind(SubSeq(u, 1, dot - 1), LAMBDA ip :
  Bind(SubSeq(u, dot + 1, Len(u)), LAMBDA fp :
    (IF t # <<>> /\ Head(t) = "-" THEN <<"-">> ELSE <<>>)
    \o StripLeadingZeros(IF ip = <<>> THEN <<"0">> ELSE ip)
    \o <<".">>
    \o StripTrailingZeros(IF fp = <<>> THEN <<"0">> ELSE fp))))))

(***************************************************************************)
(* clean_text, normalize_date, normalize_number                            *)
(***************************************************************************)
\* clean_text of a str (a missing paragraph reaches it as "").
clean_text(text) ==
  strip(sub(Plus(WS), <<Txt(" ")>>,
            sub(Cls({"{nbsp}", "{nnbsp}", "{thinsp}"}), <<Txt(" ")>>, text, FALSE),
            FALSE))

\* r"\bgad(?:a|{a-}|am|us|ai)\b", re.I
GadaPattern ==
  Cat(<<WordB, Lit("gad"), Words(<<"a", "{a-}", "am", "us", "ai">>), WordB>>)

\* r"(\d{4})\.\s*(?:gada)?\s*(\d{1,2})\.\s*([A-Za-z{a-}...]+)"
LvDatePattern ==
  Cat(<<Grp("1", Rep(Digit, 4, 4)), Lit("."), Star(WS), Opt(Lit("gada")), Star(WS),
        Grp("2", Rep(Digit, 1, 2)), Lit("."), Star(WS), Grp("3", Plus(Cls(LvLetters)))>>)

\* r"({a-}|a|s|{a-}ra)$"
LvSuffixPattern == Cat(<<Grp("1", Words(<<"{a-}", "a", "s", "{a-}ra">>)), EndS>>)

\* final.py: r"(\d{1,2})\.?\s*([A-Za-z{a:}...]+)\s*(\d{4})"
EnDeDatePatternFinal ==
  Cat(<<Grp("1", Rep(Digit, 1, 2)), Opt(Lit(".")), Star(WS),
        Grp("2", Plus(Cls(DeLetters))), Star(WS), Grp("3", Rep(Digit, 4, 4))>>)

\* MANUAL: r"(\d{1,2})\s*([A-Za-z{a:}...]+)\s*(\d{4})"
EnDeDatePatternManual ==
  Cat(<<Grp("1", Rep(Digit, 1, 2)), Star(WS),
        Grp("2", Plus(Cls(DeLetters))), Star(WS), Grp("3", Rep(Digit, 4, 4))>>)

\* MANUAL: r"(\b\d{1,2})\.\s*([A-Za-z{a:}...]+)\s*(\d{4}\b)"
DayPeriodPattern ==
  Cat(<<Grp("1", Cat(<<WordB, Rep(Digit, 1, 2)>>)), Lit("."), Star(WS),
        Grp("2", Plus(Cls(DeLetters))), Star(WS),
        Grp("3", Cat(<<Rep(Digit, 4, 4), WordB>>))>>)

\* r"(\d{1,2})[.\-/](\d{1,2})[.\-/](\d{2,4})"
NumericDatePattern ==
  Cat(<<Grp("1", Rep(Digit, 1, 2)), DateSep, Grp("2", Rep(Digit, 1, 2)), DateSep,
        Grp("3", Rep(Digit, 2, 4))>>)

\* The three rules of normalize_date, on the text each module hands them:
\* lvText to the Latvian rule, endeText to the EN/DE rule, numText to the
\* numeric rule; rest is returned when no rule applies.
DateRules(lvText, endeText, endePattern, numText, rest) ==
  Bind(match(LvDatePattern, lvText, FALSE), LAMBDA m1 :
  Bind(IF m1.ok
       THEN MonthsGet(sub(LvSuffixPattern, <<>>, lower(group(m1, lvText, "3")), FALSE))
       ELSE 0, LAMBDA month1 :
    IF month1 # 0
    THEN IsoDate(group(m1, lvText, "1"), month1, ToInt(group(m1, lvText, "2")))
    ELSE
  Bind(match(endePattern, endeText, FALSE), LAMBDA m2 :
  Bind(IF m2.ok THEN MonthsGet(lower(group(m2, endeText, "2"))) ELSE 0, LAMBDA month2 :
    IF month2 # 0
    THEN IsoDate(group(m2, endeText, "3"), month2, ToInt(group(m2, endeText, "1")))
    ELSE
  Bind(match(NumericDatePattern, numText, FALSE), LAMBDA m3 :
  Bind(ToInt(group(m3, numText, "3")), LAMBDA y3 :
    IF m3.ok
    THEN IsoDate(IntStr(IF y3 < 100 THEN y3 + 2000 ELSE y3),
                 ToInt(group(m3, numText, "2")), ToInt(group(m3, numText, "1")))
    ELSE rest))))))

\* final.py normalize_date
normalize_date_final(text0) ==
  Bind(strip(sub(GadaPattern, <<>>, clean_text(text0), TRUE)), LAMBDA text :
    DateRules(text, text, EnDeDatePatternFinal, text, text))

\* MANUAL_entity_extraction.py normalize_date
normalize_date_manual(text0) ==
  Bind(clean_text(text0), LAMBDA text :
    DateRules(text,
              sub(DayPeriodPattern, <<Ref("1"), Txt(" "), Ref("2"), Txt(" "), Ref("3")>>,
                  text, FALSE),
              EnDeDatePatternManual, text, text))

normalize_date(mod, text) ==
  IF mod = "final" THEN normalize_date_final(text) ELSE normalize_date_manual(text)

\* normalize_number (the same in both modules)
normalize_number(text) ==
  Bind(replace(replace(text, <<" ">>, <<>>), <<",">>, <<".">>), LAMBDA val :
    IF FloatParses(val) THEN FloatStr(val) ELSE val)

(***************************************************************************)
(* ENTITY_PATTERNS                                                         *)
(***************************************************************************)
\* stem(?:a|b|c)?
StemOpt(stem, ends) == Cat(<<Lit(stem), Opt(Words(ends))>>)

LvMonthPattern ==
  Alt(<<StemOpt("janv", <<"{a-}ris", "{a-}r{i-}", "{a-}ra">>),
        StemOpt("febr", <<"u{a-}ris", "ru{a-}r{i-}", "ru{a-}ra">>),
        StemOpt("mart", <<"s">>), Lit("mart{a-}"),
        StemOpt("apr{i-}li", <<"s">>), Lit("apr{i-}l{i-}"),
        StemOpt("maij", <<"s">>), Lit("maij{a-}"),
        StemOpt("j{u-}nij", <<"s">>), Lit("j{u-}nij{a-}"),
        StemOpt("j{u-}lij", <<"s">>), Lit("j{u-}lij{a-}"),
        StemOpt("august", <<"s">>), Lit("august{a-}"),
        StemOpt("septembri", <<"s">>), Lit("septembr{i-}"),
        StemOpt("oktobri", <<"s">>), Lit("oktobr{i-}"),
        StemOpt("novembri", <<"s">>), Lit("novembr{i-}"),
        StemOpt("decembri", <<"s">>), Lit("decembr{i-}")>>)

EnDeMonthPattern ==
  Alt(<<StemOpt("Jan", <<"uar", "uary">>), StemOpt("Feb", <<"ruar", "ruary">>),
        Lit("M{a:}rz"), Lit("Maerz"), StemOpt("Mar", <<"ch">>), StemOpt("Apr", <<"il">>),
        Lit("Mai"), Lit("May"),
        Cat(<<Lit("Jun"), Opt(Cls({"i", "y"}))>>), Cat(<<Lit("Jul"), Opt(Cls({"i", "y"}))>>),
        StemOpt("Aug", <<"ust">>),
        Cat(<<Lit("Sep"), Opt(Cat(<<Lit("t"), Opt(Lit("ember"))>>))>>),
        StemOpt("Okt", <<"ober">>), StemOpt("Oct", <<"ober">>), StemOpt("Nov", <<"ember">>),
        StemOpt("Dez", <<"ember">>), StemOpt("Dec", <<"ember">>)>>)

DatePattern ==
  Alt(<<Cat(<<WordB, Rep(Digit, 4, 4), Lit("."), Star(WS), Opt(Lit("gada")), Star(WS),
              Rep(Digit, 1, 2), Lit("."), Star(WS), LvMonthPattern, WordB>>),
        Cat(<<WordB, Rep(Digit, 1, 2), Opt(DateSep), Star(WS), EnDeMonthPattern, Star(WS),
              Rep(Digit, 2, 4), WordB>>),
        Cat(<<WordB, Rep(Digit, 1, 2), DateSep, Rep(Digit, 1, 2), DateSep,
              Rep(Digit, 2, 4), WordB>>)>>)

\* \d{1,6}(?:[sep]\d{3})*(?:[.,]\d+)?
Amount(sep) ==
  Cat(<<Rep(Digit, 1, 6), Star(Cat(<<Cls(sep), Rep(Digit, 3, 3)>>)),
        Opt(Cat(<<Cls({".", ","}), Plus(Digit)>>))>>)

\* final.py groups thousands by ".", "," or whitespace, MANUAL by "." or ",".
NumberPatternFinal ==
  Cat(<<NotBehind(AZaz), Amount({".", ","} \cup Spaces), NotAhead(AZaz)>>)
NumberPatternManual == Cat(<<NotBehind(AZaz), Amount({".", ","}), NotAhead(AZaz)>>)

EurAmountPattern ==
  Alt(<<Cat(<<Words(<<"EUR", "{euro}">>), Opt(WS), Amount({".", ","} \cup Spaces)>>),
        Cat(<<Amount({".", ","} \cup Spaces), Opt(WS),
              Words(<<"EUR", "{euro}", "miljardi", "miljoni", "Million", "Milliarde",
                      "Mio", "Mrd">>)>>)>>)

PercentPattern ==
  Cat(<<WordB, Rep(Digit, 1, 3), Opt(Cat(<<Cls({".", ","}), Plus(Digit)>>)), Opt(WS),
        Lit("%")>>)

\* (?:EU|ES|EURATOM|EK|EC)(?:\s*,\s*(?:EU|ES|EURATOM|EK|EC))*
InstCode == Words(<<"EU", "ES", "EURATOM", "EK", "EC">>)
InstCodes == Cat(<<InstCode, Star(Cat(<<Star(WS), Lit(","), Star(WS), InstCode>>))>>)
NoPrefix == Words(<<"No.", "Nr.", "N.">>)
SlashSep == Cat(<<Star(WS), Lit("/"), Star(WS)>>)
ActWordsFinal ==
  Words(<<"Regulation", "Regula", "Regulas", "Verordnung", "Directive", "Direkt{i-}va",
          "Decision", "L{e-}mums">>)
ActWordsManual ==
  Words(<<"Council", "Regulation", "Regula", "Regulas", "Verordnung", "Directive",
          "Direkt{i-}va", "Decision", "L{e-}mums">>)

\* final.py: (CODES) YEAR/NUM, or keyword (CODES) [No.] YEAR/NUM
LegalRefPatternFinal ==
  Alt(<<Cat(<<Lit("("), InstCodes, Lit(")"), Star(WS), Rep(Digit, 4, 4), SlashSep,
              Plus(Digit)>>),
        Cat(<<ActWordsFinal, Star(WS), Lit("("), InstCodes, Lit(")"),
              Opt(Cat(<<Star(WS), NoPrefix, Star(WS)>>)), Rep(Digit, 4, 4), SlashSep,
              Plus(Digit)>>)>>)

\* MANUAL: keyword (CODES[)] [No.] NUM/YEAR, or (CODES) YEAR/NUM after a word
\* character (the \b before the bracket)
LegalRefPatternManual ==
  Alt(<<Cat(<<WordB, ActWordsManual, Star(WS), Lit("("), InstCodes, Opt(Lit(")")),
              Opt(Cat(<<Star(WS), NoPrefix, Star(WS)>>)), Star(WS), Plus(Digit), SlashSep,
              Rep(Digit, 4, 4), WordB>>),
        Cat(<<WordB, Lit("("), InstCodes, Lit(")"), Star(WS), Rep(Digit, 4, 4), SlashSep,
              Plus(Digit), WordB>>)>>)

ArticleWords ==
  Alt(<<Lit("Article"), Cat(<<Lit("Art"), Opt(Lit("."))>>), Lit("Artikel"),
        Cat(<<Lit("pant"), Opt(Lit("s"))>>), Lit("panta"), Lit("pant{a-}"), Lit("pantu")>>)
\* \d+[A-Za-z]?(?:\(\d+\))?
ArticleNumber ==
  Cat(<<Plus(Digit), Opt(Cls(AZaz)), Opt(Cat(<<Lit("("), Plus(Digit), Lit(")")>>))>>)
ArticlePattern == Cat(<<ArticleWords, Star(WS), ArticleNumber>>)

RangePattern ==
  Cat(<<WordB, Rep(Digit, 4, 4), Opt(WS), Cls({"{ndash}", "-", "{mdash}"}), Opt(WS),
        Rep(Digit, 4, 4), WordB>>)

\* The tags, in the order of the dict literal.
Tags == <<"date", "number", "eur_amount", "percent", "legal_ref", "article", "range">>
TagSet == Range(Tags)

ENTITY_PATTERNS(mod) ==
  [tag \in TagSet |->
     CASE tag = "date" -> DatePattern
       [] tag = "number" -> IF mod = "final" THEN NumberPatternFinal ELSE NumberPatternManual
       [] tag = "eur_amount" -> EurAmountPattern
       [] tag = "percent" -> PercentPattern
       [] tag = "legal_ref" ->
            IF mod = "final" THEN LegalRefPatternFinal ELSE LegalRefPatternManual
       [] tag = "article" -> ArticlePattern
       [] tag = "range" -> RangePattern]

(***************************************************************************)
(* LEGAL_RECANON and normalize_entity                                      *)
(***************************************************************************)
\* (?:[A-Z]+)(?:\s*,\s*[A-Z]+)*   (compiled with re.I)
UpperAZ == Cls(Range(SubSeq(CaseUpper, 1, 26)))
CodeList == Cat(<<Plus(UpperAZ), Star(Cat(<<Star(WS), Lit(","), Star(WS), Plus(UpperAZ)>>))>>)

\* final.py: [(codes)] [keyword (codes2) [No.]] year/num
LEGAL_RECANON_final ==
  Cat(<<Opt(Cat(<<Lit("("), Grp("codes", CodeList), Lit(")"), Star(WS)>>)),
        Opt(Cat(<<ActWordsFinal, Star(WS), Lit("("), Grp("codes2", CodeList), Lit(")"),
                  Star(WS), Opt(NoPrefix), Star(WS)>>)),
        Grp("year", Rep(Digit, 4, 4)), SlashSep, Grp("num", Plus(Digit))>>)

\* MANUAL: [(codes)] [keyword (codes2) [No.]] num/year
LEGAL_RECANON_manual ==
  Cat(<<Opt(Cat(<<Lit("("), Grp("codes", CodeList), Lit(")"), Star(WS)>>)),
        Opt(Cat(<<ActWordsManual, Star(WS), Lit("("), Grp("codes2", CodeList), Lit(")"),
                  Star(WS), Opt(NoPrefix), Star(WS)>>)),
        Grp("num", Plus(Digit)), SlashSep, Grp("year", Rep(Digit, 4, 4))>>)

\* MANUAL strips the act words and the number prefix before LEGAL_RECANON.
StripActWords ==
  Cat(<<WordB,
        Words(<<"COUNCIL", "REGULATION", "REGULA", "REGULAS", "VERORDNUNG", "DIRECTIVE",
                "DIREKT{I-}VA", "DECISION", "L{E-}MUMS">>),
        Star(WS)>>)
StripNoPrefix == Cat(<<Star(WS), Words(<<"NO.", "NR.", "N.">>), Star(WS)>>)

\* for k, v in ENTITY_EQUIVALENCE.items(): s = s.replace(k.upper(), v.upper())
RECURSIVE ReplaceEquivalents(_, _)
ReplaceEquivalents(s, i) ==
  IF i > 3 THEN s
  ELSE ReplaceEquivalents(replace(s, upper(ENTITY_EQUIVALENCE[i][1]),
                                  upper(ENTITY_EQUIVALENCE[i][2])), i + 1)

\* order.get(x, 99)
OtherRank == 99
CodeRank(c) ==
  CASE c = Chars("EC") -> 0
    [] c = Chars("EU") -> 1
    [] c = Chars("EURATOM") -> 2
    [] OTHER -> OtherRank

\* The iteration order of set(code_list).  It follows the hashes of the codes,
\* which a python process draws at its start: hashOrder lists the codes in
\* the order that draw gives them, and a code outside it follows, in the
\* order of the list.
SetIteration(code_list, hashOrder) ==
  SelectSeq(hashOrder, LAMBDA c : \E i \in DOMAIN code_list : code_list[i] = c)
  \o SelectSeq(Tuple([i \in DOMAIN code_list |->
                        IF /\ \A j \in 1..(i - 1) : code_list[j] # code_list[i]
                           /\ \A k \in DOMAIN hashOrder : hashOrder[k] # code_list[i]
                        THEN code_list[i] ELSE <<>>]),
               LAMBDA c : c # <<>>)

\* sorted(codes, key=lambda x: order.get(x, 99)): a stable sort.
WithRank(codes, ranks) ==
  SelectSeq(codes, LAMBDA c : CodeRank(c) = 0)
  \o Concat(Tuple([k \in DOMAIN ranks |-> SelectSeq(codes, LAMBDA c : CodeRank(c) = ranks[k])]))
SortedByRank(codes) == WithRank(codes, <<1, 2, OtherRank>>)

\* ", ".join(codes)
RECURSIVE JoinCodes(_)
JoinCodes(codes) ==
  IF codes = <<>> THEN <<>>
  ELSE IF Len(codes) = 1 THEN codes[1]
  ELSE codes[1] \o Chars(", ") \o JoinCodes(Tail(codes))

CommaPattern == Cat(<<Star(WS), Lit(","), Star(WS)>>)

\* The tail of the legal_ref branch, from the codes LEGAL_RECANON found on.
CanonicalLegalRef(codes, year, num, hashOrder) ==
  Bind(IF codes = <<>> THEN <<>> ELSE split(CommaPattern, codes, FALSE), LAMBDA parts :
  Bind(Tuple([i \in DOMAIN parts |-> upper(EquivalenceGet(strip(parts[i])))]),
       LAMBDA mapped :
    <<"(">>
    \o JoinCodes(SortedByRank(SetIteration(IF mapped = <<>> THEN <<Chars("EU")>> ELSE mapped,
                                           hashOrder)))
    \o <<")">> \o year \o <<"/">> \o num))

\* final.py, tag legal_ref
normalize_legal_ref_final(val, hashOrder) ==
  Bind(upper(clean_text(val)), LAMBDA s :
  Bind(search(LEGAL_RECANON_final, s, TRUE), LAMBDA m :
  Bind(group(m, s, "codes"), LAMBDA codes :
    IF ~m.ok THEN ReplaceEquivalents(s, 1)
    ELSE CanonicalLegalRef(IF codes # <<>> THEN codes ELSE group(m, s, "codes2"),
                           group(m, s, "year"), group(m, s, "num"), hashOrder))))

\* MANUAL, tag legal_ref
normalize_legal_ref_manual(val, hashOrder) ==
  Bind(clean_text(sub(StripNoPrefix, <<>>,
                      sub(StripActWords, <<>>, upper(clean_text(val)), TRUE), TRUE)),
       LAMBDA s :
  Bind(search(LEGAL_RECANON_manual, s, TRUE), LAMBDA m :
    IF ~m.ok THEN ReplaceEquivalents(s, 1)
    ELSE CanonicalLegalRef(group(m, s, "codes"), group(m, s, "year"), group(m, s, "num"),
                           hashOrder)))

\* r"(\d+(?:[.,]\d+)?)EUR" and r"EUR(\d+(?:[.,]\d+)?)"
DecimalDigits == Cat(<<Plus(Digit), Opt(Cat(<<Cls({".", ","}), Plus(Digit)>>))>>)
AmountEur == Cat(<<Grp("1", DecimalDigits), Lit("EUR")>>)
EurAmountRe == Cat(<<Lit("EUR"), Grp("1", DecimalDigits)>>)

\* tag eur_amount (MANUAL adds a substitution that rewrites EUR<n> as itself)
normalize_eur_amount(mod, val) ==
  Bind(sub(AmountEur, <<Txt("EUR"), Ref("1")>>, replace(upper(val), <<" ">>, <<>>), FALSE),
       LAMBDA s1 :
  Bind(IF mod = "final" THEN s1
       ELSE sub(EurAmountRe, <<Txt("EUR"), Ref("1")>>, s1, FALSE), LAMBDA s2 :
    replace(sub(Lit("MILJONI"), <<Txt("MILLION")>>,
                sub(Lit("MILJARDI"), <<Txt("BILLION")>>, s2, FALSE), FALSE),
            <<",">>, <<".">>)))

\* tag article (the same in both modules)
normalize_article(val) ==
  Bind(sub(Grp("1", ArticleWords), <<Txt("Art")>>, val, TRUE), LAMBDA norm :
  Bind(search(Grp("1", ArticleNumber), norm, FALSE), LAMBDA m :
    IF m.ok THEN Chars("Art ") \o group(m, norm, "1") ELSE Chars("Art")))

\* normalize_entity(tag, val) of module mod, in a process whose sets of codes
\* iterate in hashOrder.
normalize_entity(mod, tag, val0, hashOrder) ==
  Bind(strip(val0), LAMBDA val :
    CASE tag = "date" -> normalize_date(mod, val)
      [] tag \in {"percent", "number"} -> normalize_number(val)
      [] tag = "eur_amount" -> normalize_eur_amount(mod, val)
      [] tag = "legal_ref" ->
           IF mod = "final" THEN normalize_legal_ref_final(val, hashOrder)
           ELSE normalize_legal_ref_manual(val, hashOrder)
      [] tag = "article" -> normalize_article(val)
      [] OTHER -> strip(val))

\* The codes of the catalogue's legal_ref pattern have three different ranks,
\* so extraction does not depend on the iteration order of their set.
NoHashOrder == <<>>

\* extract_entities(text) of module mod: the tags with a match, each with the
\* normalised matches in the order of the scan.
ScanTags(mod, text) ==
  [tag \in TagSet |-> findall(ENTITY_PATTERNS(mod)[tag], text, TRUE)]
NormalizedMatches(mod, found) ==
  [tag \in {t \in TagSet : found[t] # <<>>} |->
     Tuple([i \in DOMAIN found[tag] |->
              Join(normalize_entity(mod, tag, found[tag][i], NoHashOrder))])]
extract_entities(mod, text0) ==
  Bind(clean_text(text0), LAMBDA text :
  Bind(ScanTags(mod, text), LAMBDA found : NormalizedMatches(mod, found)))

(***************************************************************************)
(* The comparison: entity_similarity (final.py) and                        *)
(* is_significant_mismatch with the loop over the tags (MANUAL)            *)
(***************************************************************************)
\* ents.get(t, [])
Get(mapping, t) == IF t \in DOMAIN mapping THEN mapping[t] ELSE <<>>

\* round(matched / total, 3), in thousandths: the nearest thousandth, the even
\* one of two equally near (total stays below 8: no quotient is that near a tie
\* that the binary fraction decides otherwise).
Round3(matched, total) ==
  LET q == (1000 * matched) \div total
      r == (1000 * matched) % total
  IN IF 2 * r > total THEN q + 1
     ELSE IF 2 * r < total THEN q
     ELSE IF q % 2 = 0 THEN q ELSE q + 1

\* A loop that counts every tag of the catalogue in total, asserted or not.
SimilarityLoopAllTags(ea, eb, i, total, matched) ==
  <<total + Cardinality(i..Len(Tags)),
    matched + Cardinality({k \in i..Len(Tags) :
                             Range(Get(ea, Tags[k])) \cap Range(Get(eb, Tags[k])) # {}})>>

\* A loop that compares the first values of the two lists only.
SimilarityLoopFirstValues(ea, eb, i, total, matched) ==
  <<total + Cardinality({k \in i..Len(Tags) :
                           Get(ea, Tags[k]) # <<>> \/ Get(eb, Tags[k]) # <<>>}),
    matched + Cardinality({k \in i..Len(Tags) :
                             /\ Get(ea, Tags[k]) # <<>>
                             /\ Get(eb, Tags[k]) # <<>>
                             /\ Get(ea, Tags[k])[1] = Get(eb, Tags[k])[1]})>>

\* The loop of entity_similarity from the i-th tag on: <<total, matched>>.
RECURSIVE SimilarityLoop(_, _, _, _, _)
SimilarityLoop(ea, eb, i, total, matched) ==
  IF i > Len(Tags) THEN <<total, matched>>
  ELSE LET a_vals == Range(Get(ea, Tags[i]))
           b_vals == Range(Get(eb, Tags[i]))
       IN IF a_vals = {} /\ b_vals = {} THEN SimilarityLoop(ea, eb, i + 1, total, matched)
          ELSE IF a_vals \cap b_vals # {}
               THEN SimilarityLoop(ea, eb, i + 1, total + 1, matched + 1)
               ELSE SimilarityLoop(ea, eb, i + 1, total + 1, matched)

\* The score without the two early returns: the loop alone.
entity_similarity_loop_only(ea, eb) ==
  IF SimilarityLoop(ea, eb, 1, 0, 0)[1] # 0
  THEN Round3(SimilarityLoop(ea, eb, 1, 0, 0)[2], SimilarityLoop(ea, eb, 1, 0, 0)[1])
  ELSE 0

\* entity_similarity(ents_a, ents_b), in thousandths.  A dict is false when it
\* has no key.
entity_similarity(ea, eb) ==
  IF DOMAIN ea = {} /\ DOMAIN eb = {} THEN 1000
  ELSE IF DOMAIN ea = {} \/ DOMAIN eb = {} THEN 0
  ELSE LET counts == SimilarityLoop(ea, eb, 1, 0, 0)
       IN IF counts[1] # 0 THEN Round3(counts[2], counts[1]) ELSE 0

\* A predicate that asks for the same values on both sides.
is_significant_mismatch_unless_equal(en_vals, de_vals) == Range(en_vals) # Range(de_vals)

\* is_significant_mismatch(en_vals, de_vals), on two lists
is_significant_mismatch(en_vals, de_vals) ==
  IF en_vals = <<>> /\ de_vals = <<>> THEN FALSE
  ELSE IF Range(en_vals) \cap Range(de_vals) # {} THEN FALSE
  ELSE TRUE

\* The loop over the tags of the consistency check for paragraph n, from the
\* i-th tag on: the records appended to mismatches.
RECURSIVE TagLoop(_, _, _, _)
TagLoop(n, en_ents, de_ents, i) ==
  IF i > Len(Tags) THEN <<>>
  ELSE LET t == Tags[i]
           here == IF (t \in DOMAIN en_ents \/ t \in DOMAIN de_ents)
                      /\ is_significant_mismatch(Get(en_ents, t), Get(de_ents, t))
                   THEN <<[para |-> n, type |-> t, en |-> Get(en_ents, t),
                           de |-> Get(de_ents, t)]>>
                   ELSE <<>>
       IN here \o TagLoop(n, en_ents, de_ents, i + 1)

(***************************************************************************)
(* The programs: generate_report (final.py), its two-file wrapper (app.py) *)
(* and the consistency check (MANUAL)                                      *)
(***************************************************************************)
\* A file holds [{"para": [{"para_number": n, "para": text}, ...]}]; data is
\* the list under "para".  load_paragraphs keeps, for a number that comes
\* twice, the later text.
load_paragraphs(data) ==
  [n \in {data[k].para_number : k \in DOMAIN data} |->
     data[Max({k \in DOMAIN data : data[k].para_number = n})].para]

\* sorted(S), for a set of numbers
RECURSIVE Sorted(_)
Sorted(S) == IF S = {} THEN <<>> ELSE <<Min(S)>> \o Sorted(S \ {Min(S)})

\* The paragraph texts the runs are made of, and their entities: what
\* extract_entities gives for each, worked out once.
DeadlineEN == "The deadline is 18 March 2025 under Regulation (EU) No. 2021/1234."
DeadlineDE == "Die Frist ist der 18. M{a:}rz 2025 gem{a:}{ss} Verordnung (EU) Nr. 2021/1234."
Paragraphs ==
  {"",
   "Article 5: 50% by 18 March 2025, period 2020-2025",
   "Article 5: 60% by 18 March 2025, period 2020-2025",
   "Artikel 7: 75 % bis 3. Mai 2024, Zeitraum 2020-2025",
   DeadlineEN, DeadlineDE}
ExtractedFinal == [p \in Paragraphs |-> extract_entities("final", Chars(p))] @@ <<>>
ExtractedManual == [p \in Paragraphs |-> extract_entities("manual", Chars(p))] @@ <<>>

\* Labels that take a score above 0.8 and above 0.4, not at them.
StatusAbove(semantic_sim) ==
  IF semantic_sim > 800 THEN "green"
  ELSE IF semantic_sim > 400 THEN "yellow" ELSE "red"

\* "green" if semantic_sim >= 0.8 else ("yellow" if semantic_sim >= 0.4 else "red")
Status(semantic_sim) ==
  IF semantic_sim >= 800 THEN "green"
  ELSE IF semantic_sim >= 400 THEN "yellow" ELSE "red"

\* The row generate_report appends for paragraph n, from the texts found for
\* it, their entities and the score of the first two.
RowOf(n, en_txt, de_txt, en_ents, de_ents, lv_ents, semantic_sim) ==
  [para_number |-> n, en |-> en_txt, de |-> de_txt,
   entities |-> [en |-> en_ents, de |-> de_ents, lv |-> lv_ents],
   semantic_similarity |-> semantic_sim, status |-> Status(semantic_sim)]
RowFrom(n, en_txt, de_txt, en_ents, de_ents, lv_ents) ==
  RowOf(n, en_txt, de_txt, en_ents, de_ents, lv_ents, entity_similarity(en_ents, de_ents))
\* en_map.get(n, "")
TextOf(map, n) == IF n \in DOMAIN map THEN map[n] ELSE ""
Row(n, en_map, de_map, lv_map, extract) ==
  RowFrom(n, TextOf(en_map, n), TextOf(de_map, n), extract[TextOf(en_map, n)],
          extract[TextOf(de_map, n)], extract[TextOf(lv_map, n)])

\* The loop of generate_report over all_nums; extract holds extract_entities
\* of final.py for the texts.
Rows(all_nums, en_map, de_map, lv_map, extract) ==
  Tuple([k \in DOMAIN all_nums |-> Row(all_nums[k], en_map, de_map, lv_map, extract)])

\* final.generate_report(en_path, de_path, lv_path), on the lists of the files
generate_report_full(en_data, de_data, lv_data) ==
  Rows(Sorted(DOMAIN load_paragraphs(en_data) \cup DOMAIN load_paragraphs(de_data)
              \cup DOMAIN load_paragraphs(lv_data)),
       load_paragraphs(en_data), load_paragraphs(de_data), load_paragraphs(lv_data),
       ExtractedFinal)

\* app.generate_report(path_a, path_b): a third file of as many empty
\* paragraphs as the first file lists, numbered from 1.
generate_report(data_a, data_b) ==
  generate_report_full(data_a, data_b,
                       Tuple([k \in 1..Len(data_a) |-> [para_number |-> k, para |-> ""]]))

\* MANUAL's consistency check over the paragraph numbers of nums, in order;
\* extract holds extract_entities of MANUAL for the texts.
RECURSIVE ConsistencyLoop(_, _, _, _)
ConsistencyLoop(nums, en_map, de_map, extract) ==
  IF nums = <<>> THEN <<>>
  ELSE TagLoop(nums[1], extract[en_map[nums[1]]], extract[de_map[nums[1]]], 1)
       \o ConsistencyLoop(Tail(nums), en_map, de_map, extract)

consistency_check(en_data, de_data) ==
  ConsistencyLoop(Sorted(DOMAIN load_paragraphs(en_data) \cap DOMAIN load_paragraphs(de_data)),
                  load_paragraphs(en_data), load_paragraphs(de_data), ExtractedManual)

(***************************************************************************)
(* The inputs of normalize_entity: raw spans written from what they mean   *)
(***************************************************************************)
EnMonths ==
  <<"January", "February", "March", "April", "May", "June", "July", "August",
    "September", "October", "November", "December">>
DeMonths ==
  <<"Januar", "Februar", "M{a:}rz", "April", "Mai", "Juni", "Juli", "August",
    "September", "Oktober", "November", "Dezember">>
LvNominative ==
  <<"janv{a-}ris", "febru{a-}ris", "marts", "apr{i-}lis", "maijs", "j{u-}nijs",
    "j{u-}lijs", "augusts", "septembris", "oktobris", "novembris", "decembris">>
LvLocative ==
  <<"janv{a-}r{i-}", "febru{a-}r{i-}", "mart{a-}", "apr{i-}l{i-}", "maij{a-}",
    "j{u-}nij{a-}", "j{u-}lij{a-}", "august{a-}", "septembr{i-}", "oktobr{i-}",
    "novembr{i-}", "decembr{i-}">>

\* The forms a date is written in: Latvian with the month in the nominative
\* ("2025. gada 18. marts") or the locative, English ("18 March 2025"),
\* German ("18. M{a:}rz 2025"), numeric ("18.03.2025").
DateForms == {"lv", "lv_loc", "en", "de", "num"}
Years == {2025}
Days == {1, 18}

DateText(form, y, mth, d) ==
  CASE form = "lv" ->
         IntStr(y) \o Chars(". gada ") \o IntStr(d) \o Chars(". ") \o Chars(LvNominative[mth])
    [] form = "lv_loc" ->
         IntStr(y) \o Chars(". gada ") \o IntStr(d) \o Chars(". ") \o Chars(LvLocative[mth])
    [] form = "en" -> IntStr(d) \o <<" ">> \o Chars(EnMonths[mth]) \o <<" ">> \o IntStr(y)
    [] form = "de" -> IntStr(d) \o Chars(". ") \o Chars(DeMonths[mth]) \o <<" ">> \o IntStr(y)
    [] form = "num" -> Fmt02d(d) \o <<".">> \o Fmt02d(mth) \o <<".">> \o IntStr(y)

\* What a span was written from.  A field that does not apply is 0 or empty.
Shape(kind, form, y, mth, d, n, codes) ==
  [kind |-> kind, form |-> form, year |-> y, month |-> mth, day |-> d, num |-> n,
   codes |-> codes]
Input(tag, val, shp) == [entity |-> [tag |-> tag, val |-> val], shape |-> shp]

DateInputs ==
  {Input("date", DateText(f, y, mth, d), Shape("date", f, y, mth, d, 0, <<>>)) :
     f \in DateForms, y \in Years, mth \in DOMAIN EnMonths, d \in Days}

\* An act: its codes as written, its year and its number; written with the
\* year first ("yn") or the number first ("ny"), bare or after an act word,
\* with or without "No.".
CodeLists ==
  {<<"EC">>, <<"ES">>, <<"EU", "ES">>, <<"EU", "EC">>, <<"EURATOM", "EK">>,
   <<"XX", "YY">>, <<"YY", "XX">>}
ActYears == {2021}
ActNumbers == {12, 1234}
LegalForms == {"yn", "ny", "act yn", "act ny", "act no yn", "act no ny"}

CodesText(codes) == JoinCodes(Tuple([k \in DOMAIN codes |-> Chars(codes[k])]))
LegalText(form, codes, y, n) ==
  LET lead == IF form \in {"yn", "ny"} THEN <<>> ELSE Chars("Regulation ")
      no == IF form \in {"act no yn", "act no ny"} THEN Chars("No. ") ELSE <<>>
      pair == IF form \in {"yn", "act yn", "act no yn"}
              THEN IntStr(y) \o <<"/">> \o IntStr(n)
              ELSE IntStr(n) \o <<"/">> \o IntStr(y)
  IN lead \o <<"(">> \o CodesText(codes) \o Chars(") ") \o no \o pair

LegalInputs ==
  {Input("legal_ref", LegalText(f, c, y, n), Shape("legal", f, y, 0, 0, n, c)) :
     f \in LegalForms, c \in CodeLists, y \in ActYears, n \in ActNumbers}

\* Other spans, of every tag and of a tag outside the catalogue.
PlainSpans ==
  {<<"number", "5">>, <<"number", "1 000,5">>, <<"number", "1.234.567">>,
   <<"number", "0012.500">>, <<"number", "12.">>, <<"number", "abc">>,
   <<"number", "1,234,567">>, <<"percent", "n. a. %">>,
   <<"percent", "50%">>, <<"percent", "50 %">>, <<"percent", "12,5%">>,
   <<"percent", "50">>, <<"eur_amount", "100 EUR">>, <<"eur_amount", "EUR 100">>,
   <<"eur_amount", "1,000.50 EUR">>, <<"eur_amount", "{euro} 1.000,50">>,
   <<"eur_amount", "5 miljoni">>, <<"eur_amount", "5 Mio">>,
   <<"article", "Article 5">>, <<"article", "Art. 5">>, <<"article", "pant{a-} 7b(2)">>,
   <<"article", "Artikel 12(3)">>, <<"range", "2020 {ndash} 2025">>,
   <<"range", "2020-2025">>, <<"other", " x  y ">>, <<"other", "x">>,
   <<"date", "x gada y">>, <<"date", "31.12.99">>, <<"date", "foo">>,
   <<"legal_ref", "(EURATOM) x">>, <<"legal_ref", "foo (ES)">>}
PlainInputs ==
  {Input(p[1], Chars(p[2]), Shape("plain", "", 0, 0, 0, 0, <<>>)) : p \in PlainSpans}

Inputs == DateInputs \cup LegalInputs \cup PlainInputs

\* The codes outside the priority table that the inputs use, and the orders
\* their hashes can put them in.
OtherCodes == {"XX", "YY"}
Seeds ==
  {<<Chars(c), Chars(d)>> : c, d \in OtherCodes} \ {<<Chars(c), Chars(c)>> : c \in OtherCodes}

(***************************************************************************)
(* normalize_entity run on an input, and again on its result               *)
(***************************************************************************)
NoEntity == [tag |-> "", val |-> <<>>]
NoShape == Shape("", "", 0, 0, 0, 0, <<>>)
NoEnts == [a |-> <<>>, b |-> <<>>]
NoFiles == [en |-> <<>>, de |-> <<>>, lv |-> <<>>]

InitNorm ==
  /\ unit \in {"final", "manual"}
  /\ \E inp \in Inputs : entity = inp.entity /\ shape = inp.shape
  /\ seed \in Seeds
  /\ normalized = <<>>
  /\ ents = NoEnts
  /\ similarity = <<>>
  /\ significant = <<>>
  /\ files = NoFiles
  /\ rows = <<>>
  /\ mismatches = <<>>
  /\ pc = "raw"

Normalize ==
  /\ pc = "raw"
  /\ normalized' = <<normalize_entity(unit, entity.tag, entity.val, seed)>>
  /\ pc' = "once"
  /\ UNCHANGED <<unit, entity, shape, seed, ents, similarity, significant, files, rows,
                 mismatches>>

NormalizeAgain ==
  /\ pc = "once"
  /\ normalized' = Append(normalized,
                          normalize_entity(unit, entity.tag, normalized[1], seed))
  /\ pc' = "twice"
  /\ UNCHANGED <<unit, entity, shape, seed, ents, similarity, significant, files, rows,
                 mismatches>>

NextNorm == Normalize \/ NormalizeAgain
SpecNorm == InitNorm /\ [][NextNorm]_vars

(***************************************************************************)
(* The comparison run on two entity mappings                               *)
(***************************************************************************)
\* The mappings extract_entities can return: some tags of the catalogue, each
\* with a list of values that is not empty.
MaxAsserted == 2
MaxValues == 2
ValueNames == <<"2025-03-18", "2025-02-01", "2025-01-01", "50%">>
Values == {ValueNames[k] : k \in 1..MaxValues}
ValueLists ==
  {<<v>> : v \in Values} \cup {p \in Values \X Values : p[1] # p[2]}
Mappings ==
  UNION {[T -> ValueLists] : T \in {S \in SUBSET TagSet : Cardinality(S) <= MaxAsserted}}

InitCmp ==
  /\ unit = "final"
  /\ entity = NoEntity
  /\ shape = NoShape
  /\ seed = <<>>
  /\ normalized = <<>>
  /\ ents \in [a : Mappings, b : Mappings]
  /\ similarity = <<>>
  /\ significant = <<>>
  /\ files = NoFiles
  /\ rows = <<>>
  /\ mismatches = <<>>
  /\ pc = "input"

\* final.py: semantic_sim = entity_similarity(en_ents, de_ents)
Similarity ==
  /\ pc = "input"
  /\ similarity' = <<entity_similarity(ents.a, ents.b)>>
  /\ pc' = "scored"
  /\ UNCHANGED <<unit, entity, shape, seed, normalized, ents, significant, files, rows,
                 mismatches>>

\* MANUAL: is_significant_mismatch on the lists of every tag, and the records
\* the loop over the tags appends for the two mappings.
Mismatch ==
  /\ pc = "scored"
  /\ significant' = <<[t \in TagSet |->
                         is_significant_mismatch(Get(ents.a, t), Get(ents.b, t))]>>
  /\ mismatches' = TagLoop(1, ents.a, ents.b, 1)
  /\ pc' = "checked"
  /\ UNCHANGED <<unit, entity, shape, seed, normalized, ents, similarity, files, rows>>

NextCmp == Similarity \/ Mismatch
SpecCmp == InitCmp /\ [][NextCmp]_vars

(***************************************************************************)
(* The programs run on files                                               *)
(***************************************************************************)
\* The files: lists of at most MaxParas paragraphs, numbered from 1 to
\* MaxNumber, in any order and with repeats.
MaxParas == 2
MaxNumber == 2
ParaLists(texts) ==
  UNION {[1..len -> [para_number : 1..MaxNumber, para : texts]] : len \in 0..MaxParas}
Files == ParaLists(Paragraphs)
LvFiles == ParaLists({""})

\* final.py is run on three files, app.py and MANUAL on two.
Init ==
  /\ unit \in {"final", "app", "manual"}
  /\ entity = NoEntity
  /\ shape = NoShape
  /\ seed = <<>>
  /\ normalized = <<>>
  /\ ents = NoEnts
  /\ similarity = <<>>
  /\ significant = <<>>
  /\ files \in [en : Files, de : Files, lv : IF unit = "final" THEN LvFiles ELSE {<<>>}]
  /\ rows = <<>>
  /\ mismatches = <<>>
  /\ pc = "loaded"

\* final.py: generate_report(en_path, de_path, lv_path)
GenerateReport ==
  /\ pc = "loaded"
  /\ unit = "final"
  /\ rows' = generate_report_full(files.en, files.de, files.lv)
  /\ pc' = "reported"
  /\ UNCHANGED <<unit, entity, shape, seed, normalized, ents, similarity, significant,
                 files, mismatches>>

\* app.py: compare_files calls the wrapper generate_report(path_a, path_b)
CompareFiles ==
  /\ pc = "loaded"
  /\ unit = "app"
  /\ rows' = generate_report(files.en, files.de)
  /\ pc' = "reported"
  /\ UNCHANGED <<unit, entity, shape, seed, normalized, ents, similarity, significant,
                 files, mismatches>>

\* MANUAL: the script's consistency check of EN_FILE against DE_FILE
ConsistencyCheck ==
  /\ pc = "loaded"
  /\ unit = "manual"
  /\ mismatches' = consistency_check(files.en, files.de)
  /\ pc' = "checked"
  /\ UNCHANGED <<unit, entity, shape, seed, normalized, ents, similarity, significant,
                 files, rows>>

Next == GenerateReport \/ CompareFiles \/ ConsistencyCheck
Spec == Init /\ [][Next]_vars

(***************************************************************************)
(* Properties of the comparison (SpecCmp)                                  *)
(***************************************************************************)
\* The values of tag t on side a and on side b, as sets.
ValuesA(t) == Range(Get(ents.a, t))
ValuesB(t) == Range(Get(ents.b, t))
\* The tags at least one side asserts, and those whose value sets intersect.
Considered == {t \in TagSet : ValuesA(t) # {} \/ ValuesB(t) # {}}
Matched == {t \in TagSet : ValuesA(t) \cap ValuesB(t) # {}}

\* C1: is_significant_mismatch, on the values of a tag taken as sets, is false
\* when both sets are empty, false when the sets share a value (whatever their
\* sizes), and true in every other case, so also when exactly one is empty.
C1_MismatchBySets ==
  pc = "checked" =>
    \A t \in TagSet :
      significant[1][t] =
        (~(ValuesA(t) = {} /\ ValuesB(t) = {}) /\ ValuesA(t) \cap ValuesB(t) = {})

\* A tag with one value on side a and that value and another on side b is no
\* mismatch, while a tag only side b asserts is one.
C1_Witness ==
  /\ pc = "checked"
  /\ \E t, u \in TagSet :
       /\ Cardinality(ValuesA(t)) = 1 /\ Cardinality(ValuesB(t)) = 2
       /\ ValuesA(t) \subseteq ValuesB(t)
       /\ ~significant[1][t]
       /\ ValuesA(u) = {} /\ ValuesB(u) # {}
       /\ significant[1][u]

\* C2: the score of two mappings of which a tag is asserted is the number of
\* tags whose value sets intersect over the number of tags asserted by at
\* least one side, to the nearest thousandth: 1.0 when every asserted tag is
\* matched, 0.0 when none is, strictly between otherwise.
C2_ScoreIsMatchedOverConsidered ==
  (pc # "input" /\ Considered # {}) =>
    /\ similarity[1] \in 0..1000
    /\ 2 * Cardinality(Considered) * similarity[1]
         >= 2000 * Cardinality(Matched) - Cardinality(Considered)
    /\ 2 * Cardinality(Considered) * similarity[1]
         <= 2000 * Cardinality(Matched) + Cardinality(Considered)
    /\ (Matched = Considered) = (similarity[1] = 1000)
    /\ (Matched = {}) = (similarity[1] = 0)

\* One tag of three asserted ones is matched: the score is 0.333.
C2_Witness ==
  /\ pc # "input"
  /\ Cardinality(Considered) = 3
  /\ Cardinality(Matched) = 1
  /\ similarity[1] = 333

\* C3: two mappings without entities score 1.0 and give no mismatch record
\* for any tag; an empty mapping against one with an entity scores 0.0.
C3_BoundaryCases ==
  pc = "checked" =>
    /\ (DOMAIN ents.a = {} /\ DOMAIN ents.b = {}) =>
         (similarity[1] = 1000 /\ mismatches = <<>> /\ \A t \in TagSet : ~significant[1][t])
    /\ ((DOMAIN ents.a = {}) # (DOMAIN ents.b = {})) => similarity[1] = 0

\* Both mappings empty, scored and checked.
C3_Witness ==
  /\ pc = "checked"
  /\ DOMAIN ents.a = {} /\ DOMAIN ents.b = {}
  /\ similarity = <<1000>>
  /\ mismatches = <<>>

\* C13: the two modes agree.  The score is 1.0 exactly when no tag is a
\* significant mismatch, and 0.0 exactly when a tag is asserted and every tag
\* asserted by a side is a significant mismatch.
C13_ModesAgree ==
  pc = "checked" =>
    /\ (similarity[1] = 1000) = (\A t \in TagSet : ~significant[1][t])
    /\ (similarity[1] = 0) =
         (/\ DOMAIN ents.a \cup DOMAIN ents.b # {}
          /\ \A t \in DOMAIN ents.a \cup DOMAIN ents.b : significant[1][t])

\* Two tags asserted by both sides, every one a mismatch, scored 0.0.
C13_Witness ==
  /\ pc = "checked"
  /\ Cardinality(DOMAIN ents.a \cap DOMAIN ents.b) = 2
  /\ \A t \in DOMAIN ents.a : significant[1][t]
  /\ similarity = <<0>>

(***************************************************************************)
(* Properties of the programs run on files (Spec)                          *)
(***************************************************************************)
\* The paragraph numbers a file lists, and those of the rows, in order.
Numbers(data) == {data[k].para_number : k \in DOMAIN data}
RowNumbers == Tuple([k \in DOMAIN rows |-> rows[k].para_number])
\* The numbers only the first, only the second of two files lists.
OnlyIn(data, other) == Numbers(data) \ Numbers(other)
\* The mismatch records of paragraph n.
RecordsOf(n) == {k \in DOMAIN mismatches : mismatches[k].para = n}
\* What MANUAL extracts from the text a file holds for paragraph n.
ManualEntities(data, n) == ExtractedManual[load_paragraphs(data)[n]]

\* C4: in every row of the report the score is in [0, 1], the status is one
\* of green, yellow and red, and it is green exactly for a score of at least
\* 0.8, yellow for one of at least 0.4 and below 0.8, red below 0.4.
C4_StatusFollowsScore ==
  pc = "reported" =>
    \A k \in DOMAIN rows :
      /\ rows[k].semantic_similarity \in 0..1000
      /\ rows[k].status \in {"green", "yellow", "red"}
      /\ (rows[k].status = "green") = (rows[k].semantic_similarity >= 800)
      /\ (rows[k].status = "yellow") =
           (rows[k].semantic_similarity >= 400 /\ rows[k].semantic_similarity < 800)
      /\ (rows[k].status = "red") = (rows[k].semantic_similarity < 400)

\* A report with a row at exactly 0.8, green, and a row at exactly 0.4, yellow.
C4_Witness ==
  /\ pc = "reported"
  /\ \E i, j \in DOMAIN rows :
       /\ rows[i].semantic_similarity = 800 /\ rows[i].status = "green"
       /\ rows[j].semantic_similarity = 400 /\ rows[j].status = "yellow"

\* C5: the report, of final.py or through the wrapper of app.py, has exactly
\* one row for every paragraph number that the first or the second document
\* lists, no row for another number, and the rows are in ascending order.
C5_OneRowPerComparedParagraph ==
  pc = "reported" => RowNumbers = Sorted(Numbers(files.en) \cup Numbers(files.de))

\* The wrapper run on two documents that both list paragraph 2 only reports a
\* row for paragraph 1 as well.
C5_ExtraRow ==
  /\ pc = "reported"
  /\ unit = "app"
  /\ Numbers(files.en) = {2} /\ Numbers(files.de) = {2}
  /\ RowNumbers = <<1, 2>>

\* C6: a paragraph only one of the two documents lists is compared against an
\* empty mapping: the consistency check records a mismatch for that paragraph
\* and every tag the present side asserts, and none when it asserts no tag.
C6_OneSidedParagraphCompared ==
  pc = "checked" =>
    /\ \A n \in OnlyIn(files.en, files.de) :
         {mismatches[k].type : k \in RecordsOf(n)} = DOMAIN ManualEntities(files.en, n)
    /\ \A n \in OnlyIn(files.de, files.en) :
         {mismatches[k].type : k \in RecordsOf(n)} = DOMAIN ManualEntities(files.de, n)

\* The English document lists a paragraph with entities, the German document
\* lists nothing, and the check records nothing.
C6_Skipped ==
  /\ pc = "checked"
  /\ files.de = <<>>
  /\ \E n \in Numbers(files.en) : DOMAIN ManualEntities(files.en, n) # {}
  /\ mismatches = <<>>

\* The two documents of the example: paragraph 1 in English and in German.
DeadlineFiles ==
  /\ files.en = <<[para_number |-> 1, para |-> DeadlineEN]>>
  /\ files.de = <<[para_number |-> 1, para |-> DeadlineDE]>>
\* The date and the act of the example, as entities.
DeadlineEntities(found) ==
  /\ {"date", "legal_ref"} \subseteq DOMAIN found
  /\ found.date = <<"2025-03-18">>
  /\ found.legal_ref = <<"(EU)2021/1234">>

\* C11: for the English and the German paragraph of the example, extraction
\* gives date 2025-03-18 and legal_ref (EU)2021/1234 on both sides, the score
\* is 1.0, the status is green, and no mismatch record is emitted.
C11_DeadlineExample ==
  DeadlineFiles =>
    /\ pc = "reported" =>
         /\ DeadlineEntities(rows[1].entities.en)
         /\ DeadlineEntities(rows[1].entities.de)
         /\ rows[1].semantic_similarity = 1000
         /\ rows[1].status = "green"
    /\ pc = "checked" =>
         /\ DeadlineEntities(ManualEntities(files.en, 1))
         /\ DeadlineEntities(ManualEntities(files.de, 1))
         /\ mismatches = <<>>

\* MANUAL's check of the example: no record, and the act extracted with its
\* number before its year.
C11_ManualActNumberFirst ==
  /\ DeadlineFiles
  /\ pc = "checked"
  /\ mismatches = <<>>
  /\ ManualEntities(files.en, 1).legal_ref = <<"(EU)1234/2021">>
  /\ ManualEntities(files.de, 1).legal_ref = <<"(EU)1234/2021">>

(***************************************************************************)
(* Properties of normalize_entity (SpecNorm)                               *)
(***************************************************************************)
\* The first result, and the text the date of a shape has in ISO form.
Once == normalized[1]
IsoText(y, mth, d) == IntStr(y) \o <<"-">> \o Fmt02d(mth) \o <<"-">> \o Fmt02d(d)

\* C7: normalize_entity is idempotent: applied to its own result, under the
\* same tag, it returns that result.
C7_Idempotent == pc = "twice" => normalized[2] = normalized[1]

\* final.py on the Latvian date: the first pass drops "gada" and leaves two
\* spaces, the second pass joins them.
C7_SecondPassDiffers ==
  /\ pc = "twice"
  /\ unit = "final"
  /\ entity = [tag |-> "date", val |-> Chars("2025. gada 18. marts")]
  /\ normalized = <<Chars("2025.  18. marts"), Chars("2025. 18. marts")>>

\* C8: the Latvian form "YYYY. gada D. <month>", the English and German
\* month-name forms and the numeric form of one calendar date all normalize,
\* under tag date, to "YYYY-MM-DD" with month and day on two digits.
C8_FormsGiveIsoDate ==
  (pc # "raw" /\ shape.kind = "date" /\ shape.form \in {"lv", "en", "de", "num"}) =>
    Once = IsoText(shape.year, shape.month, shape.day)

\* The Latvian form of 18 March 2025 is returned without "gada", not as a date.
C8_LatvianNotIso ==
  /\ pc # "raw"
  /\ unit = "final"
  /\ shape.kind = "date" /\ shape.form = "lv"
  /\ entity.val = Chars("2025. gada 18. marts")
  /\ Once = Chars("2025.  18. marts")

\* The extraction pattern of the module matches the whole span.
Extracted(mod, val) == findall(ENTITY_PATTERNS(mod)["legal_ref"], val, TRUE) = <<val>>
\* Text cs ends with text tail.
EndsWith(cs, tail) ==
  Len(cs) >= Len(tail) /\ SubSeq(cs, Len(cs) - Len(tail) + 1, Len(cs)) = tail

\* C9: an act written YEAR/NUMBER or NUMBER/YEAR that the extraction pattern
\* matches is normalized to (CODES)YEAR/NUM, the year first, so that both ways
\* of writing one act give one text.
C9_YearFirst ==
  (pc # "raw" /\ shape.kind = "legal" /\ Extracted(unit, entity.val)) =>
    /\ Head(Once) = "("
    /\ EndsWith(Once, <<")">> \o IntStr(shape.year) \o <<"/">> \o IntStr(shape.num))

\* final.py keeps the order written: act 1234 of 2021 written number first
\* comes out number first.
C9_OrderKept ==
  /\ pc # "raw"
  /\ unit = "final"
  /\ shape.kind = "legal" /\ shape.year = 2021 /\ shape.num = 1234
  /\ entity.val = Chars("(EC) 1234/2021")
  /\ Extracted("final", entity.val)
  /\ Once = Chars("(EC)1234/2021")

\* The result has the canonical shape when its bracket closes right before a
\* digit; its codes are the text in the bracket.
CloseAt(cs) == Min({i \in DOMAIN cs : cs[i] = ")"})
Canonical(cs) ==
  /\ cs # <<>> /\ Head(cs) = "("
  /\ \E i \in DOMAIN cs : cs[i] = ")"
  /\ CloseAt(cs) < Len(cs) /\ cs[CloseAt(cs) + 1] \in Digits
OutputCodes(cs) == SubSeq(cs, 2, CloseAt(cs) - 1)

\* The codes as the claim has them: ES read as EU and EK as EC, one of each,
\* EC before EU before EURATOM before the others in the order written.
Equivalent(c) == IF c = "ES" THEN "EU" ELSE IF c = "EK" THEN "EC" ELSE c
MappedCodes(codes) == Tuple([k \in DOMAIN codes |-> Equivalent(codes[k])])
FirstOnly(codes) ==
  SelectSeq(Tuple([k \in DOMAIN codes |->
                     IF \E j \in 1..(k - 1) : codes[j] = codes[k] THEN "" ELSE codes[k]]),
            LAMBDA c : c # "")
ByPriority(codes) ==
  SelectSeq(codes, LAMBDA c : c = "EC") \o SelectSeq(codes, LAMBDA c : c = "EU")
  \o SelectSeq(codes, LAMBDA c : c = "EURATOM")
  \o SelectSeq(codes, LAMBDA c : c \notin {"EC", "EU", "EURATOM"})
ExpectedCodes(codes) == CodesText(ByPriority(FirstOnly(MappedCodes(codes))))

\* C10: the codes of a canonical result are the codes written, mapped through
\* the equivalence map, without duplicates, EC before EU before EURATOM before
\* any other code, the other codes in the order written - on every run.
C10_CodesInPriorityOrder ==
  (pc # "raw" /\ shape.kind = "legal" /\ Canonical(Once)) =>
    OutputCodes(Once) = ExpectedCodes(shape.codes)

\* In a process whose hashes put YY before XX, "(XX, YY)" comes out as
\* "(YY, XX)".
C10_HashOrder ==
  /\ pc # "raw"
  /\ shape.kind = "legal" /\ shape.codes = <<"XX", "YY">>
  /\ seed = <<Chars("YY"), Chars("XX")>>
  /\ Canonical(Once)
  /\ OutputCodes(Once) = Chars("YY, XX")

\* No rule of normalize_date applies to the span: the rules, given a mark to
\* return in that case, return the mark.
NoRule == <<"no rule">>
CleanedSpan == clean_text(entity.val)
NoDateRule ==
  IF unit = "final"
  THEN DateRules(strip(sub(GadaPattern, <<>>, CleanedSpan, TRUE)),
                 strip(sub(GadaPattern, <<>>, CleanedSpan, TRUE)), EnDeDatePatternFinal,
                 strip(sub(GadaPattern, <<>>, CleanedSpan, TRUE)), NoRule) = NoRule
  ELSE DateRules(CleanedSpan,
                 sub(DayPeriodPattern, <<Ref("1"), Txt(" "), Ref("2"), Txt(" "), Ref("3")>>,
                     CleanedSpan, FALSE),
                 EnDeDatePatternManual, CleanedSpan, NoRule) = NoRule
\* float() rejects what normalize_number hands it.
NoNumber ==
  ~FloatParses(replace(replace(strip(entity.val), <<" ">>, <<>>), <<",">>, <<".">>))

\* C12: a date span that no date rule matches, and a number or percent span
\* that does not parse as a number, are returned as the cleaned span: the
\* input with its whitespace normalized and trimmed, nothing else changed.
C12_FailureReturnsCleanedSpan ==
  pc # "raw" =>
    /\ (entity.tag = "date" /\ NoDateRule) => Once = CleanedSpan
    /\ (entity.tag \in {"number", "percent"} /\ NoNumber) => Once = CleanedSpan

\* A number span that float() rejects comes back with its commas replaced.
C12_CommasReplaced ==
  /\ pc # "raw"
  /\ entity = [tag |-> "number", val |-> Chars("1,234,567")]
  /\ NoNumber
  /\ Once = Chars("1.234.567")

====
